---- MODULE Spec2Model ----
(***************************************************************************)
(* The Plotly panel of mvi-llc/plotly-panel as a state machine.            *)
(*                                                                         *)
(* src/src/index.ts holds two panels: the plot-message variant (lines      *)
(* 9-192, messages {data, layout}, translated by ParsePlotlyMessage of     *)
(* src/src/messages.ts) and the string-message variant (lines 194-382,     *)
(* messages {data}, parsed inline).  Both are React function components    *)
(* mounted with ReactDOM.render (lines 186, 376), that is on a legacy root:*)
(* a setState made outside a React event handler (the host's onRender and  *)
(* the settings actionHandler) is processed synchronously and unbatched;   *)
(* passive effects (useEffect) of a commit run later, and always before the*)
(* next render is computed.                                                *)
(***************************************************************************)
EXTENDS Integers, Sequences, FiniteSets, TLC

\* ------------------------------------------------------------------ bounds
\* receipt times are {sec, nsec} pairs numbered 0..MaxTime
MaxTime == 1
\* a frame carries at most MaxFrameLen messages
MaxFrameLen == 2

\* ------------------------------------------------------- optional values
\* a TypeScript `T | undefined` is the empty tuple or a one-element tuple
Undefined == <<>>
Some(v) == <<v>>
IsDefined(o) == o # <<>>
Val(o) == o[1]

\* ------------------------------------------------------------------ JSON
\* JSON texts the host may deliver in a message field
ArrayText == "[{\"type\":\"scatter\"}]"
EmptyArrayText == "[]"
ObjectText == "{}"
StringText == "\"s\""
NumberText == "5"
NullText == "null"
MalformedText == "{"
TitleLayoutText == "{\"title\":\"T\"}"
FullLayoutText == "{\"title\":\"T\",\"autosize\":false,\"template\":\"X\"}"

\* a JavaScript object with no own property
EmptyObject == [k \in {} |-> ""]

\* decoded JSON values
JsonArray(items) == [kind |-> "array", arr |-> items, obj |-> EmptyObject]
JsonObject(fields) == [kind |-> "object", arr |-> <<>>, obj |-> fields]
JsonString == [kind |-> "string", arr |-> <<>>, obj |-> EmptyObject]
JsonNumber == [kind |-> "number", arr |-> <<>>, obj |-> EmptyObject]
JsonNull == [kind |-> "null", arr |-> <<>>, obj |-> EmptyObject]

\* the message of the SyntaxError JSON.parse throws
SyntaxErrorMessage == "Unexpected end of JSON input"

\* a returned value, or a thrown Error with its message
Return(value) == [threw |-> FALSE, err |-> "", value |-> value]
Throw(msg) == [threw |-> TRUE, err |-> msg, value |-> JsonNull]

\* JSON.parse: the decoded value, or the SyntaxError it throws
JSONParse(text) ==
  CASE text = ArrayText -> Return(JsonArray(<<[type |-> "scatter"]>>))
    [] text = EmptyArrayText -> Return(JsonArray(<<>>))
    [] text = ObjectText -> Return(JsonObject(EmptyObject))
    [] text = TitleLayoutText -> Return(JsonObject([title |-> "T"]))
    [] text = FullLayoutText ->
         Return(JsonObject([title |-> "T", autosize |-> "false", template |-> "X"]))
    [] text = StringText -> Return(JsonString)
    [] text = NumberText -> Return(JsonNumber)
    [] text = NullText -> Return(JsonNull)
    [] OTHER -> Throw(SyntaxErrorMessage)

\* Array.isArray
IsArray(json) == json.kind = "array"

\* object[key] = value on a JavaScript object
SetProp(object, key, value) ==
  [k \in (DOMAIN object) \cup {key} |-> IF k = key THEN value ELSE object[k]]

\* object[key] read from a JavaScript object: undefined when absent
Prop(object, key) == IF key \in DOMAIN object THEN object[key] ELSE "undefined"

\* ------------------------------------------------------------ messages.ts
PlotlyPlotSchemaNames == {"plotly_msgs/Plot", "plotly_msgs/msg/Plot", "plotly.Plot"}

VALID_DATATYPES == {"std_msgs/String", "std_msgs.String"}

DARK_TEMPLATE == "DARK_TEMPLATE"

\* PlotlyPlotParsed
PlotlyPlotParsed(d, l) == [data |-> d, layout |-> l]

\* a faulty translator: ParsePlotlyMessage without the Array.isArray check
ParseWithoutArrayCheck(message) ==
  LET data == IF message.data # "" THEN JSONParse(message.data)
              ELSE Return(JsonArray(<<>>))
      layout == IF message.layout # "" THEN JSONParse(message.layout)
                ELSE Return(JsonObject(EmptyObject))
  IN  IF data.threw THEN [threw |-> TRUE, err |-> data.err, value |-> Undefined]
      ELSE IF layout.threw THEN [threw |-> TRUE, err |-> layout.err, value |-> Undefined]
      ELSE [threw |-> FALSE, err |-> "",
            value |-> Some(PlotlyPlotParsed(data.value, layout.value))]

\* messages.ts 36-47: the parsed message, or the Error thrown
ParsePlotlyMessage(message) ==
  LET data == IF message.data # "" THEN JSONParse(message.data)
              ELSE Return(JsonArray(<<>>))
      layout == IF message.layout # "" THEN JSONParse(message.layout)
                ELSE Return(JsonObject(EmptyObject))
  IN  IF data.threw THEN [threw |-> TRUE, err |-> data.err, value |-> Undefined]
      ELSE IF layout.threw THEN [threw |-> TRUE, err |-> layout.err, value |-> Undefined]
      ELSE IF ~IsArray(data.value)
      THEN [threw |-> TRUE, err |-> "Plot data must be an array", value |-> Undefined]
      ELSE [threw |-> FALSE, err |-> "",
            value |-> Some(PlotlyPlotParsed(data.value, layout.value))]

\* ------------------------------------------------------- the host's values
\* a JavaScript value of unknown type, as `typeof` sees it
StringValue(s) == [type |-> "string", str |-> s]
UndefinedValue == [type |-> "undefined", str |-> ""]
NumberValue == [type |-> "number", str |-> "5"]

\* topic names a user or a saved layout may hold
TopicNames == {"a", ""}
TypedValues == {StringValue(s) : s \in TopicNames} \cup {UndefinedValue, NumberValue}

\* context.initialState: absent, or {data: {topic}}
InitialStates ==
  {Undefined, Some([data |-> Undefined])}
    \cup {Some([data |-> Some([topic |-> v])]) : v \in TypedValues}

Topic(name, schemaName) == [name |-> name, schemaName |-> schemaName]

\* renderState.topics: the host's topic catalog
TopicCatalogs ==
  {Undefined,
   Some(<<Topic("a", "plotly.Plot")>>),
   Some(<<Topic("b", "plotly.Plot"), Topic("a", "std_msgs/String")>>)}

\* renderState.colorScheme
ColorSchemes == {Undefined, Some("dark")}

\* receiveTime of a message event: a rostime {sec, nsec}
Time(t) == [sec |-> t \div 2, nsec |-> t % 2]
Times == {Time(t) : t \in 0..MaxTime}

\* MessageEvent<PlotlyPlot> and MessageEvent<StringMessage>
PlotlyPlot(d, l) == [data |-> d, layout |-> l]
StringMessage(d) == [data |-> d]
PlotEvent(d, l, t) == [message |-> PlotlyPlot(d, l), receiveTime |-> t]
StringEvent(d, t) == [message |-> StringMessage(d), receiveTime |-> t]

\* the messages of the panel's runs: a series with each layout at every
\* receipt time of interest, and data that fails to translate
PlotMessages ==
  {PlotEvent(ArrayText, l, Time(0)) : l \in {"", FullLayoutText}}
    \cup {PlotEvent(ArrayText, "", t) : t \in Times}
    \cup {PlotEvent(ObjectText, "", Time(0))}
StringMessages ==
  {StringEvent(d, t) : d \in {ArrayText, MalformedText}, t \in Times}

MessagesOf(v) == IF v = "plot" THEN PlotMessages ELSE StringMessages

\* every data text with every layout text, for the runs of the translator
DataTexts ==
  {"", ArrayText, EmptyArrayText, ObjectText, StringText, NumberText, NullText,
   MalformedText}
LayoutTexts == {"", TitleLayoutText, FullLayoutText, MalformedText}
AllMessagesOf(v) ==
  IF v = "plot" THEN {PlotEvent(d, l, Time(0)) : d \in DataTexts, l \in LayoutTexts}
  ELSE {StringEvent(d, Time(0)) : d \in DataTexts}

\* a frame longer than one: a first message at the front, then the last
First(v) ==
  IF v = "plot" THEN PlotEvent(ArrayText, "", Time(MaxTime))
  ELSE StringEvent(ArrayText, Time(MaxTime))
Lasts(v) ==
  IF v = "plot" THEN {PlotEvent(MalformedText, "", Time(0))}
  ELSE {StringEvent(MalformedText, Time(0))}

\* renderState.currentFrame: absent, empty, or up to MaxFrameLen messages
Frames(v) ==
  {Undefined, Some(<<>>)}
    \cup {Some(<<m>>) : m \in MessagesOf(v)}
    \cup {Some([i \in 1..n |-> IF i = n THEN m ELSE First(v)]) :
            n \in 2..MaxFrameLen, m \in Lasts(v)}

\* the done callbacks the host hands out; each invocation gets a fresh one
DoneIds == {1, 2}

\* @foxglove/rostime isGreaterThan
isGreaterThan(left, right) ==
  \/ left.sec > right.sec
  \/ left.sec = right.sec /\ left.nsec > right.nsec

\* ------------------------------------------------------------------ state
VARIABLES
  variant,   \* "plot" (index.ts 23-177) or "string" (index.ts 207-367)
  hooks,     \* the useState values of the mounted component
  rnd,       \* what the last committed render saw and computed (the closures
             \* of its effects, the memoized values, the props of <Plot>)
  due,       \* the passive effects of the last commit that are still to run
  host       \* the host's side: saved state, subscriptions, settings editor,
             \* the done callback it waits for

vars == <<variant, hooks, rnd, due, host>>

\* the panel as one value, for the operations that run within one handler
Panel == [hooks |-> hooks, rnd |-> rnd, due |-> due, host |-> host]

\* JavaScript truthiness of a `string | undefined`
Truthy(s) == IsDefined(s) /\ Val(s) # ""

\* ------------------------------------------------------ render (the memos)
SchemaNames(v) == IF v = "plot" THEN PlotlyPlotSchemaNames ELSE VALID_DATATYPES

InSeq(x, seq) == \E i \in 1..Len(seq) : seq[i] = x

validTopicNames(v, topics, topicName) ==
  IF ~IsDefined(topics) THEN <<>>
  ELSE LET kept == SelectSeq(Val(topics), LAMBDA t : t.schemaName \in SchemaNames(v))
           output == [i \in 1..Len(kept) |-> kept[i].name]
       IN  IF Truthy(topicName) /\ ~InSeq(Val(topicName), output)
           THEN <<Val(topicName)>> \o output
           ELSE output

\* what a memo that parses a message yields: its value, and the
\* setErrorMessage call it makes, if any
MemoOut(value, sets, err) == [value |-> value, setsError |-> sets, error |-> err]

\* index.ts 132-152; the value is the PlotlyPlotParsed or undefined
plotMessage(latestMessage) ==
  IF ~IsDefined(latestMessage) THEN MemoOut(Undefined, FALSE, Undefined)
  ELSE LET parsed == ParsePlotlyMessage(Val(latestMessage).message)
       IN  IF parsed.threw
           THEN MemoOut(Undefined, TRUE, Some("Failed to parse: " \o parsed.err))
           ELSE MemoOut(parsed.value, TRUE, Undefined)

\* index.ts 155
data(plotMsg) == IF IsDefined(plotMsg) THEN Val(plotMsg).data ELSE JsonArray(<<>>)

\* a faulty layout memo: the template is imposed in the dark theme only
layoutWithAuthorTemplate(colorScheme, plotMsg) ==
  LET output == IF IsDefined(plotMsg) THEN Val(plotMsg).layout.obj ELSE EmptyObject
      sized == SetProp(output, "autosize", "true")
  IN  IF colorScheme = "dark" THEN SetProp(sized, "template", DARK_TEMPLATE) ELSE sized

\* a faulty layout memo: the layout is built from an empty object
layoutFromEmptyObject(colorScheme, plotMsg) ==
  SetProp(SetProp(EmptyObject, "autosize", "true"), "template",
          IF colorScheme = "dark" THEN DARK_TEMPLATE ELSE "undefined")

\* index.ts 159-164; the object returned is plotMessage.layout itself
layout(colorScheme, plotMsg) ==
  LET output == IF IsDefined(plotMsg) THEN Val(plotMsg).layout.obj ELSE EmptyObject
      sized == SetProp(output, "autosize", "true")
  IN  SetProp(sized, "template",
              IF colorScheme = "dark" THEN DARK_TEMPLATE ELSE "undefined")

\* a faulty plotData memo: a successful parse leaves the error message alone
plotDataKeepingError(latestMessage) ==
  IF ~IsDefined(latestMessage) THEN MemoOut(JsonArray(<<>>), FALSE, Undefined)
  ELSE LET json == JSONParse(Val(latestMessage).message.data)
       IN  IF json.threw
           THEN MemoOut(JsonArray(<<>>), TRUE, Some("Failed to parse JSON: " \o json.err))
           ELSE IF ~IsArray(json.value)
           THEN MemoOut(JsonArray(<<>>), TRUE, Some("JSON is not an array"))
           ELSE MemoOut(json.value, FALSE, Undefined)

\* index.ts 319-346; the value is the Plotly.Data[] handed to <Plot>
plotData(latestMessage) ==
  IF ~IsDefined(latestMessage) THEN MemoOut(JsonArray(<<>>), FALSE, Undefined)
  ELSE LET json == JSONParse(Val(latestMessage).message.data)
       IN  IF json.threw
           THEN MemoOut(JsonArray(<<>>), TRUE, Some("Failed to parse JSON: " \o json.err))
           ELSE IF ~IsArray(json.value)
           THEN MemoOut(JsonArray(<<>>), TRUE, Some("JSON is not an array"))
           ELSE MemoOut(json.value, TRUE, Undefined)

\* index.ts 349-354
plotLayout(colorScheme) ==
  [autosize |-> "true",
   template |-> IF colorScheme = "dark" THEN DARK_TEMPLATE ELSE "undefined"]

\* ------------------------------------------------ effects: dependencies
\* the dependency arrays of the five useEffect calls, in source order
SettingsDeps(r) == <<r.validTopicNames, r.topicName, r.errorMessage>>
SaveStateDeps(r) == <<r.topicName>>
SubscribeDeps(r) == <<r.topicName, r.topics>>
LatestMessageDeps(r) == <<r.messages, r.latestMessage, r.topicName>>
RenderDoneDeps(r) == <<r.renderDone>>

\* the effects a commit schedules: those with a dependency that differs
\* between the previous render and this one
EffectsOf(prev, r) ==
  [settings |-> SettingsDeps(prev) # SettingsDeps(r),
   saveState |-> SaveStateDeps(prev) # SaveStateDeps(r),
   subscribe |-> SubscribeDeps(prev) # SubscribeDeps(r),
   latestMessage |-> LatestMessageDeps(prev) # LatestMessageDeps(r),
   renderDone |-> RenderDoneDeps(prev) # RenderDoneDeps(r)]

\* after the first render every effect runs
AllEffects ==
  [settings |-> TRUE, saveState |-> TRUE, subscribe |-> TRUE, latestMessage |-> TRUE,
   renderDone |-> TRUE]

NoEffects ==
  [settings |-> FALSE, saveState |-> FALSE, subscribe |-> FALSE, latestMessage |-> FALSE,
   renderDone |-> FALSE]

Pending(d) == d # NoEffects

\* One render of the component and its commit.  A memo is recomputed when a
\* dependency differs from the previous render's; a setErrorMessage made
\* while rendering re-renders at once with the memos kept.
RenderCommit(v, p) ==
  LET h == p.hooks
      r == p.rnd
      reparse == h.latestMessage # r.latestMessage
      memo == IF ~reparse THEN MemoOut(r.parsed, FALSE, Undefined)
              ELSE IF v = "plot" THEN plotMessage(h.latestMessage)
              ELSE plotData(h.latestMessage)
      errorMessage == IF memo.setsError THEN memo.error ELSE h.errorMessage
      relayout == IF v = "plot" THEN reparse \/ h.colorScheme # r.colorScheme
                  ELSE h.colorScheme # r.colorScheme
      newLayout == IF ~relayout THEN r.layout
                   ELSE IF v = "plot" THEN layout(h.colorScheme, memo.value)
                   ELSE plotLayout(h.colorScheme)
      \* the plot variant's layout memo writes into plotMessage.layout
      parsed == IF v = "plot" /\ relayout /\ IsDefined(memo.value)
                THEN Some([Val(memo.value) EXCEPT !.layout = JsonObject(newLayout)])
                ELSE memo.value
      h2 == [h EXCEPT !.errorMessage = errorMessage]
      r2 == [colorScheme |-> h2.colorScheme, topics |-> h2.topics,
             topicName |-> h2.topicName, messages |-> h2.messages,
             latestMessage |-> h2.latestMessage, errorMessage |-> h2.errorMessage,
             renderDone |-> h2.renderDone,
             validTopicNames |-> validTopicNames(v, h2.topics, h2.topicName),
             parsed |-> parsed,
             data |-> IF v = "plot" THEN data(memo.value) ELSE memo.value,
             layout |-> newLayout]
  IN  [p EXCEPT !.hooks = h2, !.rnd = r2, !.due = EffectsOf(r, r2)]

\* ---------------------------------------------------------------- effects
\* Each effect reads the values of the render it belongs to (r).

\* index.ts 68-99, 252-282: the settings tree given to the host (with the
\* actionHandler)
SettingsEffect(r) ==
  Some([items |-> r.validTopicNames, value |-> r.topicName, error |-> r.errorMessage])

\* index.ts 102, 285: context.saveState({data: {topic: topicName}})
SaveStateEffect(r) ==
  Some([data |-> Some([topic |-> IF IsDefined(r.topicName)
                                 THEN StringValue(Val(r.topicName))
                                 ELSE UndefinedValue])])

\* index.ts 105-112, 288-295: the argument of context.subscribe
SubscribeEffect(r) ==
  LET found == /\ Truthy(r.topicName)
               /\ IsDefined(r.topics)
               /\ \E i \in 1..Len(Val(r.topics)) : Val(r.topics)[i].name = Val(r.topicName)
  IN  IF found THEN <<Val(r.topicName)>> ELSE <<>>

\* index.ts 115-129: the plot-message variant takes the last of the frame
LatestOfPlot(topicName, messages, latestMessage) ==
  IF ~IsDefined(topicName) THEN Undefined
  ELSE IF ~IsDefined(messages) \/ Len(Val(messages)) = 0 THEN latestMessage
  ELSE Some(Val(messages)[Len(Val(messages))])

\* a faulty selector: a message with an equal receipt time replaces the selection
LatestOfStringOnTie(topicName, messages, latestMessage) ==
  IF ~IsDefined(topicName) THEN Undefined
  ELSE IF ~IsDefined(messages) \/ Len(Val(messages)) = 0 THEN latestMessage
  ELSE LET curLatest == Val(messages)[Len(Val(messages))]
       IN  IF \/ ~IsDefined(latestMessage)
              \/ ~isGreaterThan(Val(latestMessage).receiveTime, curLatest.receiveTime)
           THEN Some(curLatest)
           ELSE latestMessage

\* index.ts 298-316: the string-message variant compares receipt times
LatestOfString(topicName, messages, latestMessage) ==
  IF ~IsDefined(topicName) THEN Undefined
  ELSE IF ~IsDefined(messages) \/ Len(Val(messages)) = 0 THEN latestMessage
  ELSE LET curLatest == Val(messages)[Len(Val(messages))]
       IN  IF \/ ~IsDefined(latestMessage)
              \/ isGreaterThan(curLatest.receiveTime, Val(latestMessage).receiveTime)
           THEN Some(curLatest)
           ELSE latestMessage

\* a faulty effect: the selection is kept when no topic is selected
LatestMessageEffectKeeping(v, r) ==
  IF ~IsDefined(r.topicName) THEN r.latestMessage
  ELSE IF v = "plot" THEN LatestOfPlot(r.topicName, r.messages, r.latestMessage)
  ELSE LatestOfString(r.topicName, r.messages, r.latestMessage)

\* the argument of setLatestMessage
LatestMessageEffect(v, r) ==
  IF v = "plot" THEN LatestOfPlot(r.topicName, r.messages, r.latestMessage)
  ELSE LatestOfString(r.topicName, r.messages, r.latestMessage)

\* index.ts 167, 357: renderDone?.().  The host notes the callback as invoked
\* and whether the render it follows had the frame's theme, topics, messages.
RenderDoneEffect(r, h) ==
  IF ~IsDefined(r.renderDone) THEN h
  ELSE [h EXCEPT
          !.waiting = IF @ = r.renderDone THEN Undefined ELSE @,
          !.acked = r.renderDone,
          !.ackApplied = /\ r.colorScheme = h.frame.colorScheme
                         /\ r.topics = h.frame.topics
                         /\ r.messages = h.frame.messages]

\* the passive effects of the last commit, in source order
FlushPassiveEffects(v, p) ==
  LET d == p.due
      h1 == [p.host EXCEPT
               !.settings = IF d.settings THEN SettingsEffect(p.rnd) ELSE @,
               !.savedState = IF d.saveState THEN SaveStateEffect(p.rnd) ELSE @,
               !.subscriptions = IF d.subscribe THEN SubscribeEffect(p.rnd) ELSE @]
  IN  [p EXCEPT
         !.hooks.latestMessage =
            IF d.latestMessage THEN LatestMessageEffect(v, p.rnd) ELSE @,
         !.host = IF d.renderDone THEN RenderDoneEffect(p.rnd, h1) ELSE h1,
         !.due = NoEffects]

\* the one element of a singleton
The(S) == CHOOSE x \in S : TRUE

\* a setState of one hook outside a React batch: nothing when the value is the
\* same; otherwise the pending effects run, then the component renders
SetState(v, p, hook, value) ==
  IF p.hooks[hook] = value THEN p
  ELSE The({RenderCommit(v, flushed) :
              flushed \in {FlushPassiveEffects(v, [p EXCEPT !.hooks[hook] = value])}})

\* the setState calls of one handler, in order
RECURSIVE SetStates(_, _, _)
SetStates(v, p, calls) ==
  IF calls = <<>> THEN p
  ELSE SetStates(v, SetState(v, p, calls[1][1], calls[1][2]), Tail(calls))

\* ------------------------------------------------------------------- init
\* a faulty getInitialTopic: an empty string counts as no topic
getInitialTopicIfTruthy(initialState) ==
  IF ~IsDefined(initialState) THEN Undefined
  ELSE IF ~IsDefined(Val(initialState).data) THEN Undefined
  ELSE LET initialStateTopic == Val(Val(initialState).data).topic
       IN  IF initialStateTopic.type = "string" /\ initialStateTopic.str # ""
           THEN Some(initialStateTopic.str)
           ELSE Undefined

\* index.ts 179-183, 369-373
getInitialTopic(initialState) ==
  IF ~IsDefined(initialState) THEN Undefined
  ELSE IF ~IsDefined(Val(initialState).data) THEN Undefined
  ELSE LET initialStateTopic == Val(Val(initialState).data).topic
       IN  IF initialStateTopic.type = "string" THEN Some(initialStateTopic.str)
           ELSE Undefined

\* the useState initial values, index.ts 25-31, 209-215
InitialHooks(initialState) ==
  [colorScheme |-> "light", topics |-> Undefined,
   topicName |-> getInitialTopic(initialState), messages |-> Undefined,
   latestMessage |-> Undefined, errorMessage |-> Undefined, renderDone |-> Undefined]

\* initPanel (index.ts 185-192, 375-382): ReactDOM.render mounts the component:
\* the first render is committed, its effects are still to run
Mount(v, initialState) ==
  LET h == InitialHooks(initialState)
      r == [colorScheme |-> h.colorScheme, topics |-> h.topics,
            topicName |-> h.topicName, messages |-> h.messages,
            latestMessage |-> h.latestMessage, errorMessage |-> h.errorMessage,
            renderDone |-> h.renderDone,
            validTopicNames |-> validTopicNames(v, h.topics, h.topicName),
            parsed |-> IF v = "plot" THEN Undefined ELSE JsonArray(<<>>),
            data |-> JsonArray(<<>>),
            layout |-> IF v = "plot" THEN layout(h.colorScheme, Undefined)
                       ELSE plotLayout(h.colorScheme)]
  IN  [hooks |-> h, rnd |-> r,
       due |-> AllEffects,
       host |-> [savedState |-> initialState, subscriptions |-> <<>>,
                 settings |-> Undefined, waiting |-> Undefined, acked |-> Undefined,
                 ackApplied |-> TRUE,
                 frame |-> [colorScheme |-> h.colorScheme, topics |-> h.topics,
                            messages |-> h.messages]]]

Becomes(p) ==
  /\ hooks' = p.hooks
  /\ rnd' = p.rnd
  /\ due' = p.due
  /\ host' = p.host

Init ==
  /\ variant \in {"plot", "string"}
  /\ \E initialState \in InitialStates :
     \E p \in {Mount(variant, initialState)} :
       /\ hooks = p.hooks
       /\ rnd = p.rnd
       /\ due = p.due
       /\ host = p.host

\* ---------------------------------------------------------------- actions
\* context.onRender (index.ts 44-49, 228-233): four setState calls in a row.
\* The host renders a frame once the previous done callback was invoked, and
\* waits for the callback it hands over.
HostRenders(schemes, catalogs, frames) ==
  /\ ~IsDefined(host.waiting)
  /\ \E done \in DoneIds, colorScheme \in schemes, topics \in catalogs,
        currentFrame \in frames :
       /\ Some(done) # hooks.renderDone
       /\ \E scheme \in {IF IsDefined(colorScheme) THEN Val(colorScheme) ELSE "light"} :
          \E p0 \in {[Panel EXCEPT
                        !.host.waiting = Some(done),
                        !.host.frame = [colorScheme |-> scheme, topics |-> topics,
                                        messages |-> currentFrame]]} :
          \E p4 \in {SetStates(variant, p0,
                                 <<<<"renderDone", Some(done)>>,
                                   <<"colorScheme", scheme>>,
                                   <<"topics", topics>>,
                                   <<"messages", currentFrame>>>>)} :
            Becomes(p4)
  /\ UNCHANGED variant

OnRender == HostRenders(ColorSchemes, TopicCatalogs, Frames(variant))

\* actionHandler (index.ts 70-82, 254-266), registered by the settings effect
SettingsAction ==
  /\ IsDefined(host.settings)
  /\ \E action \in {"update", "perform-node-action"},
        path \in {"data.topic", "data.other"}, value \in TypedValues :
       \E p0 \in {Panel} :
       \E topic \in {IF value.type = "string" THEN Some(value.str) ELSE Undefined} :
       \E calls \in {IF action # "update" THEN <<>>
                     ELSE IF path = "data.topic" THEN <<<<"topicName", topic>>>>
                     ELSE <<>>} :
       \E p1 \in {SetStates(variant, p0, calls)} :
         Becomes(p1)
  /\ UNCHANGED variant

\* the scheduler runs the passive effects of the last commit; a setState made
\* by an effect re-renders when the effects are through
RunPassiveEffects ==
  /\ Pending(due)
  /\ \E p0 \in {Panel} :
     \E p1 \in {FlushPassiveEffects(variant, p0)} :
     \E p2 \in {IF p1.hooks # hooks THEN RenderCommit(variant, p1) ELSE p1} :
       Becomes(p2)
  /\ UNCHANGED variant

\* the panel is removed (the function initPanel returns, index.ts 189-191:
\* unmounting runs the pending effects first) and a new panel is initialized
\* from the state the host has saved
Remount ==
  /\ \E p0 \in {Panel} :
     \E p1 \in {FlushPassiveEffects(variant, p0)} :
     \E initialState \in {p1.host.savedState} :
     \E p2 \in {Mount(variant, initialState)} :
       Becomes(p2)
  /\ UNCHANGED variant

Next == OnRender \/ SettingsAction \/ RunPassiveEffects \/ Remount

Spec == Init /\ [][Next]_vars

\* ------------------------------------------ the translator on every text
\* a panel with the topic "a" selected receives single-message frames that
\* carry every data text with every layout text
TranslatorInit ==
  /\ variant \in {"plot", "string"}
  /\ \E p \in {Mount(variant, Some([data |-> Some([topic |-> StringValue("a")])]))} :
       /\ hooks = p.hooks
       /\ rnd = p.rnd
       /\ due = p.due
       /\ host = p.host

OnRenderAnyText ==
  HostRenders({Undefined, Some("dark")}, {Some(<<Topic("a", "plotly.Plot")>>)},
              {Some(<<m>>) : m \in AllMessagesOf(variant)})

TranslatorNext == OnRenderAnyText \/ RunPassiveEffects

TranslatorSpec == TranslatorInit /\ [][TranslatorNext]_vars

\* ------------------------------------------------------------- vocabulary
\* no passive effect is left to run
Settled == ~Pending(due)

NonEmpty(messages) == IsDefined(messages) /\ Len(Val(messages)) > 0
LastOf(messages) == Val(messages)[Len(Val(messages))]

\* the message translates to a chart spec
Translates(v, m) ==
  IF v = "plot" THEN ~ParsePlotlyMessage(m.message).threw
  ELSE ~JSONParse(m.message.data).threw /\ IsArray(JSONParse(m.message.data).value)

\* the series of a message that translates
SeriesOf(v, m) ==
  IF v = "plot" THEN Val(ParsePlotlyMessage(m.message).value).data
  ELSE JSONParse(m.message.data).value

\* the text is valid JSON that decodes to something other than an array
DecodesToNonArray(text) ==
  /\ text # ""
  /\ ~JSONParse(text).threw
  /\ JSONParse(text).value.kind \in {"object", "string", "number", "null"}

\* the layout field of the message is absent, empty or valid JSON
LayoutDecodes(v, m) ==
  v = "string" \/ m.message.layout = "" \/ ~JSONParse(m.message.layout).threw

\* the layout object the author of a plot message specified
AuthorLayout(m) ==
  IF m.message.layout = "" THEN EmptyObject ELSE JSONParse(m.message.layout).value.obj

\* the error string of a failed validation, as the panel reports it
ValidationError(v) ==
  IF v = "plot" THEN "Failed to parse: Plot data must be an array"
  ELSE "JSON is not an array"

\* the error field of the settings tree the host was last given
SettingsError == IF IsDefined(host.settings) THEN Val(host.settings).error ELSE Undefined

\* the message the last committed render translated has non-array data
RendersNonArrayData ==
  /\ IsDefined(rnd.latestMessage)
  /\ DecodesToNonArray(Val(rnd.latestMessage).message.data)

\* the series handed to <Plot> is an array, and empty with a chart spec never
\* returned when the rendered message has non-array data
SeriesIsAnArray ==
  /\ IsArray(rnd.data)
  /\ RendersNonArrayData =>
       /\ rnd.data = JsonArray(<<>>)
       /\ variant = "plot" => ~IsDefined(rnd.parsed)

\* ------------------------------------------------------------------ claims

\* C1 (as the code has it): a message whose data decodes to a non-array never
\* yields a chart spec and the series handed to the widget is always an
\* array, empty after the failure; the error is the validation error when the
\* layout field decodes, and the layout's parse error when it does not
\* (ParsePlotlyMessage decodes both fields before it validates data).
NonArrayDataIsRejected ==
  /\ SeriesIsAnArray
  /\ RendersNonArrayData =>
       rnd.errorMessage =
         IF LayoutDecodes(variant, Val(rnd.latestMessage))
         THEN Some(ValidationError(variant))
         ELSE Some("Failed to parse: " \o SyntaxErrorMessage)

\* C1 as stated: every message whose data decodes to a non-array fails with
\* the validation error, and the series is always an array.
NonArrayDataFailsValidation ==
  /\ SeriesIsAnArray
  /\ RendersNonArrayData => rnd.errorMessage = Some(ValidationError(variant))

\* C1: a null data text was translated, rejected and reported
NullDataRejected ==
  /\ RendersNonArrayData
  /\ Val(rnd.latestMessage).message.data = NullText
  /\ rnd.errorMessage = Some(ValidationError(variant))
  /\ rnd.data = JsonArray(<<>>)

\* the selection changes to a message
Replaces == hooks'.latestMessage # hooks.latestMessage /\ IsDefined(hooks'.latestMessage)

\* the new selection is the first one, or strictly newer than the previous
FirstOrNewer ==
  \/ ~IsDefined(hooks.latestMessage)
  \/ isGreaterThan(Val(hooks'.latestMessage).receiveTime,
                   Val(hooks.latestMessage).receiveTime)

\* what the selector has chosen once the effects are through
SelectionSettled ==
  Settled /\ IsDefined(hooks.topicName) /\ NonEmpty(hooks.messages) =>
    /\ IsDefined(hooks.latestMessage)
    /\ variant = "plot" => hooks.latestMessage = Some(LastOf(hooks.messages))
    /\ variant = "string" =>
         \/ hooks.latestMessage = Some(LastOf(hooks.messages))
         \/ ~isGreaterThan(LastOf(hooks.messages).receiveTime,
                           Val(hooks.latestMessage).receiveTime)

\* C2 (as the code has it): a selection is only ever replaced by the last
\* message of a non-empty frame received with a topic selected; the
\* string-message variant replaces it only if there was none or the receipt
\* time is strictly greater (a tie retains the selection), and selects the
\* last message whenever it is strictly newer; the plot-message variant
\* always selects the last message of the frame, whatever its receipt time.
SelectorFollowsItsVariant ==
  /\ []SelectionSettled
  /\ [][Replaces =>
          /\ IsDefined(hooks.topicName)
          /\ NonEmpty(hooks.messages)
          /\ hooks'.latestMessage = Some(LastOf(hooks.messages))
          /\ variant = "string" => FirstOrNewer]_vars

\* C2 as stated: in both variants the selection is replaced only if there
\* was none or the receipt time of the new message is strictly greater.
SelectorComparesReceiptTimes == [][Replaces => FirstOrNewer]_vars

\* C2: the string-message variant has retained its selection against a
\* different message with the same receipt time
TieRetained ==
  /\ variant = "string"
  /\ Settled
  /\ IsDefined(hooks.topicName)
  /\ NonEmpty(hooks.messages)
  /\ IsDefined(hooks.latestMessage)
  /\ LastOf(hooks.messages) # Val(hooks.latestMessage)
  /\ LastOf(hooks.messages).receiveTime = Val(hooks.latestMessage).receiveTime

\* C3: in every reachable state the layout handed to the widget has
\* autosize = true, and its template is the dark template exactly when the
\* theme is dark and undefined when the theme is light, whatever the layout
\* of the message sets.
LayoutIsSizedAndThemed ==
  /\ Prop(rnd.layout, "autosize") = "true"
  /\ Prop(rnd.layout, "template") = DARK_TEMPLATE <=> hooks.colorScheme = "dark"
  /\ hooks.colorScheme = "light" => Prop(rnd.layout, "template") = "undefined"

\* C3: a message whose layout sets autosize to false and a template is
\* rendered in the light theme
AuthorOverridesInLight ==
  /\ variant = "plot"
  /\ hooks.colorScheme = "light"
  /\ IsDefined(rnd.parsed)
  /\ Val(rnd.latestMessage).message.layout = FullLayoutText
  /\ Prop(AuthorLayout(Val(rnd.latestMessage)), "autosize") = "false"
  /\ Prop(AuthorLayout(Val(rnd.latestMessage)), "template") = "X"

\* the fields of the final layout are autosize, template and the author's,
\* and every other field has the author's value
OtherFieldsPassThrough ==
  IF variant = "plot" /\ IsDefined(rnd.parsed)
  THEN LET author == AuthorLayout(Val(rnd.latestMessage))
       IN  /\ DOMAIN rnd.layout = DOMAIN author \cup {"autosize", "template"}
           /\ \A k \in DOMAIN author \ {"autosize", "template"} :
                rnd.layout[k] = author[k]
  ELSE DOMAIN rnd.layout = {"autosize", "template"}

\* C4 (as the code has it): every field of the final layout other than
\* autosize and template has the author's value, and the template is always
\* imposed: the dark template in the dark theme, undefined in the light
\* theme, where an author-specified template is dropped.
LayoutImposesTemplate ==
  /\ OtherFieldsPassThrough
  /\ Prop(rnd.layout, "template") =
       IF hooks.colorScheme = "dark" THEN DARK_TEMPLATE ELSE "undefined"

\* C4 as stated: the other fields pass through, and in the light theme an
\* author-specified template is the template of the final layout.
AuthorTemplateKeptInLight ==
  /\ OtherFieldsPassThrough
  /\ (/\ variant = "plot"
      /\ IsDefined(rnd.parsed)
      /\ hooks.colorScheme = "light"
      /\ "template" \in DOMAIN AuthorLayout(Val(rnd.latestMessage))) =>
       Prop(rnd.layout, "template") = AuthorLayout(Val(rnd.latestMessage)).template

\* C4: a layout with a title and a template of its own went through the
\* merge in the light theme
TitledLayoutMerged ==
  /\ variant = "plot"
  /\ IsDefined(rnd.parsed)
  /\ hooks.colorScheme = "light"
  /\ "template" \in DOMAIN AuthorLayout(Val(rnd.latestMessage))
  /\ Prop(rnd.layout, "title") = "T"
  /\ Prop(rnd.layout, "template") = "undefined"

\* what the panel shows for the selected message once the effects are through
OutcomeOfSelection ==
  Settled /\ IsDefined(hooks.latestMessage) =>
    IF Translates(variant, Val(hooks.latestMessage))
    THEN /\ rnd.data = SeriesOf(variant, Val(hooks.latestMessage))
         /\ SettingsError = Undefined
    ELSE /\ rnd.data = JsonArray(<<>>)
         /\ IsDefined(SettingsError)
         /\ Val(SettingsError) # ""

\* the series of m is rendered and no error is reported
Shown(m) ==
  /\ hooks.latestMessage = Some(m)
  /\ rnd.data = SeriesOf(variant, m)
  /\ SettingsError = Undefined

\* the string-message variant keeps a selection that is not older than m
NotNewer(m) ==
  /\ variant = "string"
  /\ IsDefined(hooks.latestMessage)
  /\ ~isGreaterThan(m.receiveTime, Val(hooks.latestMessage).receiveTime)

\* C5 (as the code has it): once the effects are through, a selected message
\* that fails to translate shows as an empty chart with a non-empty error in
\* the settings, and one that translates shows its series with no error; a
\* message that translates and is the last of the frame of a selected topic
\* is then the one rendered, with the error cleared, except in the
\* string-message variant when its receipt time is not strictly greater than
\* that of the selection, which stays with its own outcome.
FailureIsSuperseded ==
  /\ OutcomeOfSelection
  /\ (/\ Settled
      /\ IsDefined(hooks.topicName)
      /\ NonEmpty(hooks.messages)
      /\ Translates(variant, LastOf(hooks.messages))) =>
       Shown(LastOf(hooks.messages)) \/ NotNewer(LastOf(hooks.messages))

\* C5 as stated: once the effects are through, the series of a message that
\* translates and was delivered last on the selected and subscribed topic is
\* rendered and the error field is empty.
ValidMessageIsRendered ==
  (/\ Settled
   /\ IsDefined(hooks.topicName)
   /\ host.subscriptions = <<Val(hooks.topicName)>>
   /\ NonEmpty(hooks.messages)
   /\ Translates(variant, LastOf(hooks.messages))) =>
    /\ rnd.data = SeriesOf(variant, LastOf(hooks.messages))
    /\ SettingsError = Undefined

\* C5: a message that translates is selected and rendered while the settings
\* still show the error of the message that failed before it
RecoveringFromFailure ==
  /\ IsDefined(hooks.latestMessage)
  /\ Translates(variant, Val(hooks.latestMessage))
  /\ rnd.data = SeriesOf(variant, Val(hooks.latestMessage))
  /\ ~IsDefined(hooks.errorMessage)
  /\ IsDefined(SettingsError)
  /\ due.settings

\* C6: whenever no topic is selected, once the effects have settled no
\* message is selected and the chart has an empty series, whatever the frames
\* held and whatever was selected before.
NoTopicNoMessage ==
  Settled /\ ~IsDefined(hooks.topicName) =>
    /\ ~IsDefined(hooks.latestMessage)
    /\ rnd.data = JsonArray(<<>>)

\* C6: the topic was cleared after a message of a non-empty frame had been
\* selected and had failed, and the effects have settled
TopicClearedAfterSelection ==
  /\ Settled
  /\ ~IsDefined(hooks.topicName)
  /\ NonEmpty(hooks.messages)
  /\ IsDefined(hooks.errorMessage)
  /\ ~IsDefined(hooks.latestMessage)

\* C7 as stated: once the effects are through the panel subscribes to at
\* most one topic, which is the selected topic and is in the host's catalog
\* with a schema name of the allow-list.
SubscribesToAllowListedTopic ==
  Settled =>
    /\ Len(host.subscriptions) <= 1
    /\ host.subscriptions # <<>> =>
         /\ host.subscriptions = <<Val(hooks.topicName)>>
         /\ IsDefined(hooks.topics)
         /\ \E i \in 1..Len(Val(hooks.topics)) :
              /\ Val(hooks.topics)[i].name = Val(hooks.topicName)
              /\ Val(hooks.topics)[i].schemaName \in SchemaNames(variant)

\* C8: once the effects are through the state saved to the host holds the
\* selected topic name, and a panel initialized from the state saved when the
\* previous panel was removed selects the topic name that panel had.
TopicNameRoundTrips ==
  /\ [](Settled => getInitialTopic(host.savedState) = hooks.topicName)
  /\ [][Remount => hooks'.topicName = hooks.topicName]_vars

\* C8: the topic was cleared through the settings after a message had
\* failed, and the cleared name has been saved
ClearedTopicSaved ==
  /\ Settled
  /\ ~IsDefined(hooks.topicName)
  /\ IsDefined(hooks.errorMessage)
  /\ host.savedState = Some([data |-> Some([topic |-> UndefinedValue])])

\* C9 as stated: the done callback of a frame is only invoked after a render
\* that has the theme, the topics and the messages of that frame.
DoneFollowsAppliedFrame == host.ackApplied

\* C10 as stated: once the effects are through, with no topic or no message
\* selected the error field of the settings is empty.
NoErrorWithoutSelection ==
  Settled /\ (~IsDefined(hooks.topicName) \/ ~IsDefined(hooks.latestMessage)) =>
    SettingsError = Undefined
====
